---- MODULE Spec2Model ----
(***************************************************************************)
(* Model of benchexec/tools/metaval.py: the tool-info adapter for MetaVal. *)
(* One Tool instance is shared by several runner threads that call         *)
(* cmdline() and determine_result().  The instance state is the lock, the  *)
(* attributes verifierName and wrappedTool (absent until first assigned),  *)
(* and the process-wide working directory.                                 *)
(***************************************************************************)
EXTENDS Naturals, Sequences, FiniteSets, TLC

\* ------------------------------------------------------------------ bounds
NumThreads == 2
MaxCalls == 3
MaxLiveCalls == 2
MaxSeqCalls == 3
MaxMixCalls == 3

Threads == 1..NumThreads

\* --------------------------------------------------------------- constants
\* An attribute of the instance that has not been assigned (hasattr is False).
NoAttr == "<unset>"
NoTool == [module |-> NoAttr, serial |-> 0]
\* propertyfile=None
None == "<None>"

TOOL_TO_PATH_MAP ==
    [k \in {"cpachecker-metaval", "cpachecker", "esbmc", "symbiotic",
            "yogar-cbmc", "ultimateautomizer"} |->
        CASE k = "cpachecker-metaval" -> "CPAchecker"
          [] k = "cpachecker" -> "CPAchecker-1.7-svn 29852-unix"
          [] k = "esbmc" -> "esbmc"
          [] k = "symbiotic" -> "symbiotic"
          [] k = "yogar-cbmc" -> "yogar-cbmc"
          [] k = "ultimateautomizer" -> "UAutomizer-linux"]

REQUIRED_PATHS == {TOOL_TO_PATH_MAP[k] : k \in DOMAIN TOOL_TO_PATH_MAP}

\* The working directory of the process when the adapter is constructed,
\* as a sequence of path components.
OrigCwd == <<"bench">>

\* ------------------------------------------------------------ str.lower()
\* str.lower() on the identifier spellings the runner passes.
Lower(s) ==
    CASE s = "ESBMC" -> "esbmc"
      [] s = "Esbmc" -> "esbmc"
      [] s = "Symbiotic" -> "symbiotic"
      [] s = "SYMBIOTIC" -> "symbiotic"
      [] s = "CBMC" -> "cbmc"
      [] s = "NoSuch" -> "nosuch"
      [] s = "UltimateAutomizer" -> "ultimateautomizer"
      [] s = "CPAchecker" -> "cpachecker"
      [] OTHER -> s

\* ------------------------------------------------- argparse (lines 86-91)
FlagWitness == "--metavalWitness"
FlagMetaval == "--metaval"
FlagAddPath == "--metavalAdditionalPATH"
FlagWitnessType == "--metavalWitnessType"
KnownFlags == {FlagWitness, FlagMetaval, FlagAddPath, FlagWitnessType}
\* Tokens argparse takes for option strings (they start with "-"), which can
\* therefore not be the argument of a preceding flag.
OptionStrings == KnownFlags \cup {"--timeout", "--32"}

\* Namespace before parsing: every destination is None.
EmptyNamespace ==
    [metavalWitness |-> None, metaval |-> None,
     metavalAdditionalPATH |-> None, metavalWitnessType |-> None,
     error |-> FALSE, rest |-> <<>>]

Dest(flag) ==
    CASE flag = FlagWitness -> "metavalWitness"
      [] flag = FlagMetaval -> "metaval"
      [] flag = FlagAddPath -> "metavalAdditionalPATH"
      [] flag = FlagWitnessType -> "metavalWitnessType"

RECURSIVE Scan(_, _, _)
\* Left-to-right scan of parse_known_args: a known flag consumes the next
\* token as its argument (an error when there is none or it is an option
\* string); every other token is left in the remainder.
Scan(options, i, ns) ==
    IF i > Len(options) THEN ns
    ELSE IF options[i] \in KnownFlags
         THEN IF i = Len(options) \/ options[i + 1] \in OptionStrings
              THEN [ns EXCEPT !.error = TRUE]
              ELSE Scan(options, i + 2,
                        [ns EXCEPT ![Dest(options[i])] = options[i + 1]])
         ELSE Scan(options, i + 1, [ns EXCEPT !.rest = Append(@, options[i])])

\* The parser with --metavalWitness declared without required=True.
ParseKnownArgs_WitnessOptional(options) ==
    LET ns == Scan(options, 1, EmptyNamespace)
    IN  IF ns.error \/ ns.metaval = None
        THEN [ns EXCEPT !.error = TRUE]
        ELSE ns

\* parse_known_args with --metavalWitness and --metaval required.
ParseKnownArgs(options) ==
    LET ns == Scan(options, 1, EmptyNamespace)
    IN  IF ns.error \/ ns.metavalWitness = None \/ ns.metaval = None
        THEN [ns EXCEPT !.error = TRUE]
        ELSE ns

\* ------------------------------------------------------------ environment
\* The modules benchexec.tools.<name> that exist and define a class Tool.
LoadableModules == {"esbmc", "symbiotic", "cbmc", "ultimateautomizer", "cpachecker"}

\* __import__("benchexec.tools." + verifierName, fromlist=["Tool"]).Tool()
CanLoad(verifierName) == verifierName \in LoadableModules

\* os.path.join(dir, rel) on component sequences, rel a relative path.
PathJoin(dir, rel) == dir \o rel

RECURSIVE CommonPrefixLen(_, _)
CommonPrefixLen(p, q) ==
    IF p = <<>> \/ q = <<>> \/ Head(p) # Head(q) THEN 0
    ELSE 1 + CommonPrefixLen(Tail(p), Tail(q))

\* os.path.relpath(path), taken from the working directory start: one ".."
\* per component of start below the common prefix, then the rest of path.
RelPath(path, start) ==
    LET c == CommonPrefixLen(path, start)
    IN  [i \in 1..(Len(start) - c) |-> ".."] \o SubSeq(path, c + 1, Len(path))

\* The directories that exist below the original working directory: chdir
\* into any other path raises OSError.
DirExists(path) ==
    \E d \in REQUIRED_PATHS : path = PathJoin(OrigCwd, <<d>>)

\* The sub-adapter (benchexec.tools.<module>.Tool), the BaseTool contract.
SubExecutable(tool) == tool.module
SubCmdline(tool, executable, options, tasks, propertyfile, rlimits) ==
    <<executable>> \o options \o tasks
SubVerdicts == {"true", "false(unreach-call)"}

\* The arguments of a sub-adapter call that has not been made.
NoArgs ==
    [executable |-> "", options |-> <<>>, tasks |-> <<>>, propertyfile |-> <<>>,
     rlimits |-> ""]

\* (returncode, returnsignal, output, isTimeout) of a finished run.
NoRun == [returncode |-> 0, returnsignal |-> 0, output |-> "", isTimeout |-> FALSE]
RunTimeout ==
    [returncode |-> 0, returnsignal |-> 9, output |-> "killed", isTimeout |-> TRUE]
RunExit ==
    [returncode |-> 1, returnsignal |-> 0, output |-> "FALSE", isTimeout |-> FALSE]

\* ------------------------------------------------------------------ inputs
\* The option lists the runner passes.
OptEsbmcUpper == <<"--metaval", "ESBMC", "--metavalWitness", "w.graphml">>
OptEsbmcExtra ==
    <<"--metavalWitness", "w.graphml", "--timeout", "--metaval", "esbmc",
      "--metavalWitnessType", "violation">>
OptSymbiotic ==
    <<"--metaval", "Symbiotic", "--metavalWitness", "w.graphml",
      "--metavalAdditionalPATH", "bin">>
OptCbmc == <<"--metaval", "CBMC", "--metavalWitness", "w.graphml">>
OptNoSuch == <<"--metaval", "NoSuch", "--metavalWitness", "w.graphml">>
OptNoWitness == <<"--metaval", "esbmc">>
OptNoMetaval == <<"--metavalWitness", "w.graphml", "--timeout">>
OptNoValue == <<"--metavalWitness", "w.graphml", "--metaval">>

OptionLists ==
    {OptEsbmcUpper, OptEsbmcExtra, OptSymbiotic, OptCbmc, OptNoSuch,
     OptNoWitness, OptNoMetaval, OptNoValue}

\* The (options, propertyfile) pairs of the cmdline calls.
Executable == "metaval.sh"
Tasks == <<"t.c">>
Rlimits == "rlimits"

CmdlineInputs ==
    [options : OptionLists, propertyfile : {"prop.prp"}, tasks : {Tasks}]
    \cup [options : {OptEsbmcUpper, OptNoMetaval}, propertyfile : {None},
          tasks : {Tasks}]

\* The runs whose outcome the runner hands to determine_result.
DetermineInputs == {RunTimeout}

\* ------------------------------------------------------------------- state
VARIABLES
    lock,           \* self.lock: 0 when free, else the thread holding it
    verifierName,   \* self.verifierName, NoAttr until assigned
    wrappedTool,    \* self.wrappedTool, NoTool until assigned
    cwd,            \* os.getcwd(), process-wide
    constructions,  \* number of sub-adapter objects constructed so far
    calls,          \* number of calls started so far
    succeeded,      \* some cmdline call has returned an argument vector
    th              \* per thread: position and locals of the call in progress

\* Fields of th[t] beyond the locals of the source: acquires, chdirs and
\* subcalls count the lock acquisitions, os.chdir calls and sub-adapter
\* calls of the call in progress; usedTool and subcwd are the sub-adapter
\* object and the working directory of its last sub-adapter call; subArgs
\* and subRun are the arguments it passed to the sub-adapter's cmdline and
\* determine_result, subVerdict what the latter returned; afterMixed tells
\* that the call started when another call had ended by the mixed-tools exit
\* (noted by the calls of MixSpec only).

vars == <<lock, verifierName, wrappedTool, cwd, constructions, calls, succeeded, th>>

Idle ==
    [pc |-> "idle", op |-> "", options |-> <<>>, propertyfile |-> None,
     verifierName |-> NoAttr, oldcwd |-> <<>>, exc |-> "", outcome |-> "",
     retval |-> <<>>, verdict |-> "", wrappedOptions |-> <<>>, subExecutable |-> "",
     acquires |-> 0, chdirs |-> 0, subcalls |-> 0, usedTool |-> NoTool,
     subcwd |-> <<>>, tasks |-> <<>>, run |-> NoRun, subArgs |-> NoArgs,
     subRun |-> NoRun, subVerdict |-> "", afterMixed |-> FALSE]

HasWrappedTool == wrappedTool # NoTool

Init ==
    /\ lock = 0
    /\ verifierName = NoAttr
    /\ wrappedTool = NoTool
    /\ cwd = OrigCwd
    /\ constructions = 0
    /\ calls = 0
    /\ succeeded = FALSE
    /\ th = [t \in Threads |-> Idle]

Shared == <<lock, verifierName, wrappedTool, cwd, constructions>>

\* The call of thread t ends: by a return value, an exception or sys.exit.
Finish(t, outcome) ==
    th' = [th EXCEPT ![t] = [@ EXCEPT !.pc = "done", !.outcome = outcome,
                                      !.exc = ""]]

\* An exception (or SystemExit) is raised inside a with/try block: control
\* passes to the block's exit at pc with the exception pending.
Raise(t, exc, pc) ==
    th' = [th EXCEPT ![t] = [@ EXCEPT !.pc = pc, !.exc = exc]]

Goto(t, pc) == th' = [th EXCEPT ![t] = [@ EXCEPT !.pc = pc]]

\* ------------------------------------------------------- the runner's calls
\* Some call has ended by the exit of line 112 and its thread rests there.
MixedExitSeen ==
    \E u \in Threads : th[u].pc = "done" /\ th[u].outcome = "mixed_exit"

\* A thread enters cmdline(executable, options, tasks, propertyfile).
BeginCmdline(t, inp, after) ==
    /\ th[t].pc = "idle"
    /\ th' = [th EXCEPT ![t] = [Idle EXCEPT !.pc = "parse", !.op = "cmdline",
                                            !.options = inp.options,
                                            !.propertyfile = inp.propertyfile,
                                            !.tasks = inp.tasks,
                                            !.afterMixed = after]]
    /\ calls' = calls + 1
    /\ UNCHANGED <<Shared, succeeded>>

StartCmdline(t, inp) == BeginCmdline(t, inp, FALSE)

StartDetermineResult(t, run) ==
    /\ th[t].pc = "idle"
    /\ th' = [th EXCEPT ![t] = [Idle EXCEPT !.pc = "check77",
                                            !.op = "determine_result",
                                            !.run = run]]
    /\ calls' = calls + 1
    /\ UNCHANGED <<Shared, succeeded>>

CallCmdline(t) ==
    /\ calls < MaxCalls
    /\ \E inp \in CmdlineInputs : StartCmdline(t, inp)

CallDetermineResult(t) ==
    /\ calls < MaxCalls
    /\ \E run \in DetermineInputs : StartDetermineResult(t, run)

\* The runner takes the outcome of the call; the thread is free again.
Return(t) ==
    /\ th[t].pc = "done"
    /\ th' = [th EXCEPT ![t] = Idle]
    /\ UNCHANGED <<Shared, calls, succeeded>>

\* ------------------------------------------------------ cmdline, lines 85-138
AdditionalPathArgument(ns) ==
    IF ns.metavalAdditionalPATH # None /\ ns.metavalAdditionalPATH # ""
    THEN <<"--additionalPATH", ns.metavalAdditionalPATH>> ELSE <<>>

WitnessTypeArgument(ns) ==
    IF ns.metavalWitnessType # None /\ ns.metavalWitnessType # ""
    THEN <<"--witnessType", ns.metavalWitnessType>> ELSE <<>>

\* Lines 86-103 without the lower() of line 92.
Parse_NoLower(t) ==
    /\ th[t].pc = "parse"
    /\ LET ns == ParseKnownArgs(th[t].options)
       IN  IF ns.error
           THEN Finish(t, "usage_exit")
           ELSE th' = [th EXCEPT ![t] = [@ EXCEPT !.pc = "lock104",
                                    !.verifierName = ns.metaval]]
    /\ UNCHANGED <<Shared, calls, succeeded>>

\* Lines 86-103: parse the options; parser.error() exits the call.
Parse(t) ==
    /\ th[t].pc = "parse"
    /\ LET ns == ParseKnownArgs(th[t].options)
       IN  IF ns.error
           THEN Finish(t, "usage_exit")
           ELSE th' = [th EXCEPT ![t] = [@ EXCEPT !.pc = "lock104",
                                    !.verifierName = Lower(ns.metaval)]]
    /\ UNCHANGED <<Shared, calls, succeeded>>

\* Line 104: with self.lock (blocks until the lock is free).
Acquire104(t) ==
    /\ th[t].pc = "lock104"
    /\ lock = 0
    /\ lock' = t
    /\ th' = [th EXCEPT ![t] = [@ EXCEPT !.pc = "resolve105",
                                         !.acquires = @ + 1]]
    /\ UNCHANGED <<verifierName, wrappedTool, cwd, constructions, calls, succeeded>>

\* Resolution without the hasattr test of line 105: every call resolves anew.
Resolve105_NoHasattr(t) ==
    /\ th[t].pc = "resolve105"
    /\ verifierName' = th[t].verifierName
    /\ Goto(t, "import107")
    /\ UNCHANGED <<lock, wrappedTool, cwd, constructions, calls, succeeded>>

\* Resolution without the comparison of lines 110-112.
Resolve105_NoMismatch(t) ==
    /\ th[t].pc = "resolve105"
    /\ IF ~HasWrappedTool
       THEN /\ verifierName' = th[t].verifierName
            /\ Goto(t, "import107")
       ELSE /\ UNCHANGED verifierName
            /\ Goto(t, "unlock112")
    /\ UNCHANGED <<lock, wrappedTool, cwd, constructions, calls, succeeded>>

\* The first resolution leaving out the assignment of line 106.
Resolve105_NoRecord(t) ==
    /\ th[t].pc = "resolve105"
    /\ IF ~HasWrappedTool
       THEN /\ UNCHANGED verifierName
            /\ Goto(t, "import107")
       ELSE /\ UNCHANGED verifierName
            /\ th' = [th EXCEPT ![t] = [@ EXCEPT
                      !.pc = "unlock112",
                      !.exc = IF th[t].verifierName # verifierName
                              THEN "mixed_exit" ELSE ""]]
    /\ UNCHANGED <<lock, wrappedTool, cwd, constructions, calls, succeeded>>

\* The mismatch branch recording the call's identifier before it exits.
Resolve105_Overwrite(t) ==
    /\ th[t].pc = "resolve105"
    /\ IF ~HasWrappedTool
       THEN /\ verifierName' = th[t].verifierName
            /\ Goto(t, "import107")
       ELSE /\ verifierName' = th[t].verifierName
            /\ th' = [th EXCEPT ![t] = [@ EXCEPT
                      !.pc = "unlock112",
                      !.exc = IF th[t].verifierName # verifierName
                              THEN "mixed_exit" ELSE ""]]
    /\ UNCHANGED <<lock, wrappedTool, cwd, constructions, calls, succeeded>>

\* Lines 105-106 and 110-112: record the identifier on first resolution,
\* else compare it with the recorded one.
Resolve105(t) ==
    /\ th[t].pc = "resolve105"
    /\ IF ~HasWrappedTool
       THEN /\ verifierName' = th[t].verifierName
            /\ Goto(t, "import107")
       ELSE /\ UNCHANGED verifierName
            /\ th' = [th EXCEPT ![t] = [@ EXCEPT
                      !.pc = "unlock112",
                      !.exc = IF th[t].verifierName # verifierName
                              THEN "mixed_exit" ELSE ""]]
    /\ UNCHANGED <<lock, wrappedTool, cwd, constructions, calls, succeeded>>

\* Lines 107-109: import the module and construct its Tool.
Import107(t) ==
    /\ th[t].pc = "import107"
    /\ IF CanLoad(th[t].verifierName)
       THEN /\ wrappedTool' = [module |-> th[t].verifierName,
                               serial |-> constructions + 1]
            /\ constructions' = constructions + 1
            /\ Goto(t, "unlock112")
       ELSE /\ UNCHANGED <<wrappedTool, constructions>>
            /\ Raise(t, "ImportError", "unlock112")
    /\ UNCHANGED <<lock, verifierName, cwd, calls, succeeded>>

\* End of the with block of line 104: the lock is released, a pending
\* exception leaves the call.
Unlock112(t) ==
    /\ th[t].pc = "unlock112"
    /\ lock' = 0
    /\ IF th[t].exc # ""
       THEN Finish(t, th[t].exc)
       ELSE Goto(t, "check114")
    /\ UNCHANGED <<verifierName, wrappedTool, cwd, constructions, calls, succeeded>>

\* Line 114 going on to the sub-adapter calls without the directory scope.
Check114_NoScope(t) ==
    /\ th[t].pc = "check114"
    /\ IF HasWrappedTool
       THEN Goto(t, "exec117")
       ELSE Finish(t, "notfound_exit")
    /\ UNCHANGED <<Shared, calls, succeeded>>

\* Lines 114 and 137-138.
Check114(t) ==
    /\ th[t].pc = "check114"
    /\ IF HasWrappedTool
       THEN Goto(t, "lock68")
       ELSE Finish(t, "notfound_exit")
    /\ UNCHANGED <<Shared, calls, succeeded>>

\* ------------------------------------------- _in_tool_directory, lines 62-74
\* The directory scope entered without waiting for the lock.
Acquire68_NoWait(t) ==
    /\ th[t].pc = "lock68"
    /\ lock' = t
    /\ th' = [th EXCEPT ![t] = [@ EXCEPT !.pc = "chdir70", !.acquires = @ + 1]]
    /\ UNCHANGED <<verifierName, wrappedTool, cwd, constructions, calls, succeeded>>

\* Line 68: with self.lock.
Acquire68(t) ==
    /\ th[t].pc = "lock68"
    /\ lock = 0
    /\ lock' = t
    /\ th' = [th EXCEPT ![t] = [@ EXCEPT !.pc = "chdir70", !.acquires = @ + 1]]
    /\ UNCHANGED <<verifierName, wrappedTool, cwd, constructions, calls, succeeded>>

\* Where the body of the with block starts once the directory is entered.
Body(t) == IF th[t].op = "cmdline" THEN "exec117" ELSE "delegate81"

\* Lines 70-71: remember the working directory and enter the directory of
\* the recorded identifier.
Chdir70(t) ==
    /\ th[t].pc = "chdir70"
    /\ IF verifierName \notin DOMAIN TOOL_TO_PATH_MAP
       THEN /\ th' = [th EXCEPT ![t] = [@ EXCEPT !.pc = "finally74",
                                  !.oldcwd = cwd, !.exc = "KeyError"]]
            /\ UNCHANGED cwd
       ELSE LET target == PathJoin(cwd, <<TOOL_TO_PATH_MAP[verifierName]>>)
            IN  \E ok \in BOOLEAN :
                  IF ok /\ DirExists(target)
                  THEN /\ cwd' = target
                       /\ th' = [th EXCEPT ![t] = [@ EXCEPT !.pc = Body(t),
                                      !.oldcwd = cwd, !.chdirs = @ + 1]]
                  ELSE /\ UNCHANGED cwd
                       /\ th' = [th EXCEPT ![t] = [@ EXCEPT !.pc = "finally74",
                                      !.oldcwd = cwd, !.chdirs = @ + 1,
                                      !.exc = "OSError"]]
    /\ UNCHANGED <<lock, verifierName, wrappedTool, constructions, calls, succeeded>>

\* Line 117: self.wrappedTool.executable(), the first argument evaluated.
SubExec117(t) ==
    /\ th[t].pc = "exec117"
    /\ \E ok \in BOOLEAN :
          th' = [th EXCEPT ![t] = [@ EXCEPT
                    !.pc = IF ok THEN "cmdline116" ELSE "finally74",
                    !.exc = IF ok THEN "" ELSE "SubError",
                    !.subExecutable = IF ok THEN SubExecutable(wrappedTool) ELSE "",
                    !.subcalls = @ + 1, !.usedTool = wrappedTool, !.subcwd = cwd]]
    /\ UNCHANGED <<Shared, calls, succeeded>>

\* Lines 117-121: the arguments passed to self.wrappedTool.cmdline().
CmdlineArgs116(t) ==
    [executable |-> th[t].subExecutable,
     options |-> ParseKnownArgs(th[t].options).rest,
     tasks |-> <<RelPath(PathJoin(th[t].oldcwd, <<"output", "ARG.c">>), cwd)>>,
     propertyfile |-> RelPath(PathJoin(th[t].oldcwd, <<th[t].propertyfile>>), cwd),
     rlimits |-> Rlimits]

\* Lines 116-122: the remaining arguments, then self.wrappedTool.cmdline().
\* os.path.join(oldcwd, None) raises TypeError.
SubCmdline116(t) ==
    /\ th[t].pc = "cmdline116"
    /\ IF th[t].propertyfile = None
       THEN Raise(t, "TypeError", "finally74")
       ELSE LET args == CmdlineArgs116(t)
            IN  \E ok \in BOOLEAN :
                  th' = [th EXCEPT ![t] = [@ EXCEPT
                            !.pc = "finally74",
                            !.exc = IF ok THEN "" ELSE "SubError",
                            !.wrappedOptions =
                                IF ok
                                THEN SubCmdline(wrappedTool, args.executable,
                                         args.options, args.tasks,
                                         args.propertyfile, args.rlimits)
                                ELSE <<>>,
                            !.subArgs = args,
                            !.subcalls = @ + 1, !.usedTool = wrappedTool,
                            !.subcwd = cwd]]
    /\ UNCHANGED <<Shared, calls, succeeded>>

\* Lines 81-83: self.wrappedTool.determine_result(...).
Delegate81(t) ==
    /\ th[t].pc = "delegate81"
    /\ \E v \in SubVerdicts \cup {"raise"} :
          th' = [th EXCEPT ![t] = [@ EXCEPT
                    !.pc = "finally74",
                    !.exc = IF v = "raise" THEN "SubError" ELSE "",
                    !.verdict = IF v = "raise" THEN "" ELSE v,
                    !.subVerdict = IF v = "raise" THEN "" ELSE v,
                    !.subRun = th[t].run,
                    !.subcalls = @ + 1, !.usedTool = wrappedTool, !.subcwd = cwd]]
    /\ UNCHANGED <<Shared, calls, succeeded>>

\* The restore without try/finally: skipped when an exception is pending.
Finally74_OnlyOnSuccess(t) ==
    /\ th[t].pc = "finally74"
    /\ cwd' = IF th[t].exc = "" THEN th[t].oldcwd ELSE cwd
    /\ th' = [th EXCEPT ![t] = [@ EXCEPT !.pc = "unlock68", !.chdirs = @ + 1]]
    /\ UNCHANGED <<lock, verifierName, wrappedTool, constructions, calls, succeeded>>

\* Line 74: finally: os.chdir(oldcwd).
Finally74(t) ==
    /\ th[t].pc = "finally74"
    /\ cwd' = th[t].oldcwd
    /\ th' = [th EXCEPT ![t] = [@ EXCEPT !.pc = "unlock68", !.chdirs = @ + 1]]
    /\ UNCHANGED <<lock, verifierName, wrappedTool, constructions, calls, succeeded>>

\* The lock taken by acquire() and released by release() after the body, with
\* no with block: an exception leaves the call with the lock held.
Unlock68_KeepOnError(t) ==
    /\ th[t].pc = "unlock68"
    /\ lock' = IF th[t].exc # "" THEN lock ELSE 0
    /\ IF th[t].exc # ""
       THEN Finish(t, th[t].exc)
       ELSE IF th[t].op = "cmdline"
            THEN Goto(t, "return123")
            ELSE Finish(t, "verdict")
    /\ UNCHANGED <<verifierName, wrappedTool, cwd, constructions, calls, succeeded>>

\* End of the with block of line 68: the lock is released; a pending
\* exception leaves the call, determine_result returns the verdict.
Unlock68(t) ==
    /\ th[t].pc = "unlock68"
    /\ lock' = 0
    /\ IF th[t].exc # ""
       THEN Finish(t, th[t].exc)
       ELSE IF th[t].op = "cmdline"
            THEN Goto(t, "return123")
            ELSE Finish(t, "verdict")
    /\ UNCHANGED <<verifierName, wrappedTool, cwd, constructions, calls, succeeded>>

\* The vector of lines 123-136 with the two optional parts in the other order.
Return123_Swapped(t) ==
    /\ th[t].pc = "return123"
    /\ LET ns == ParseKnownArgs(th[t].options)
       IN  IF th[t].verifierName \notin DOMAIN TOOL_TO_PATH_MAP
           THEN /\ Finish(t, "KeyError")
                /\ UNCHANGED succeeded
           ELSE /\ th' = [th EXCEPT ![t] = [@ EXCEPT
                         !.pc = "done", !.outcome = "argv",
                         !.retval = <<Executable, "--verifier",
                                      TOOL_TO_PATH_MAP[th[t].verifierName],
                                      "--witness", ns.metavalWitness>>
                                    \o WitnessTypeArgument(ns)
                                    \o AdditionalPathArgument(ns)
                                    \o th[t].tasks \o <<"--">>
                                    \o th[t].wrappedOptions]]
                /\ succeeded' = TRUE
    /\ UNCHANGED <<Shared, calls>>

\* Lines 123-136: the returned argument vector.
Return123(t) ==
    /\ th[t].pc = "return123"
    /\ LET ns == ParseKnownArgs(th[t].options)
       IN  IF th[t].verifierName \notin DOMAIN TOOL_TO_PATH_MAP
           THEN /\ Finish(t, "KeyError")
                /\ UNCHANGED succeeded
           ELSE /\ th' = [th EXCEPT ![t] = [@ EXCEPT
                         !.pc = "done", !.outcome = "argv",
                         !.retval = <<Executable, "--verifier",
                                      TOOL_TO_PATH_MAP[th[t].verifierName],
                                      "--witness", ns.metavalWitness>>
                                    \o AdditionalPathArgument(ns)
                                    \o WitnessTypeArgument(ns)
                                    \o th[t].tasks \o <<"--">>
                                    \o th[t].wrappedOptions]]
                /\ succeeded' = TRUE
    /\ UNCHANGED <<Shared, calls>>

\* ------------------------------------------- determine_result, lines 76-83
\* The test of line 77 made on verifierName instead of wrappedTool.
Check77_ByName(t) ==
    /\ th[t].pc = "check77"
    /\ IF verifierName = NoAttr
       THEN th' = [th EXCEPT ![t] = [@ EXCEPT !.pc = "done", !.outcome = "verdict",
                                            !.verdict = "METAVAL ERROR"]]
       ELSE Goto(t, "lock68")
    /\ UNCHANGED <<Shared, calls, succeeded>>

\* Lines 77-78, read without the lock.
Check77(t) ==
    /\ th[t].pc = "check77"
    /\ IF ~HasWrappedTool
       THEN th' = [th EXCEPT ![t] = [@ EXCEPT !.pc = "done", !.outcome = "verdict",
                                            !.verdict = "METAVAL ERROR"]]
       ELSE Goto(t, "lock68")
    /\ UNCHANGED <<Shared, calls, succeeded>>

\* ----------------------------------------------------------- specification
Next ==
    \E t \in Threads :
        \/ CallCmdline(t)
        \/ CallDetermineResult(t)
        \/ Return(t)
        \/ Parse(t)
        \/ Acquire104(t)
        \/ Resolve105(t)
        \/ Import107(t)
        \/ Unlock112(t)
        \/ Check114(t)
        \/ Acquire68(t)
        \/ Chdir70(t)
        \/ SubExec117(t)
        \/ SubCmdline116(t)
        \/ Delegate81(t)
        \/ Finally74(t)
        \/ Unlock68(t)
        \/ Return123(t)
        \/ Check77(t)

Spec == Init /\ [][Next]_vars

\* The steps of a call in progress, apart from the lock acquisitions.
Step(t) ==
    \/ Parse(t) \/ Resolve105(t) \/ Import107(t) \/ Unlock112(t) \/ Check114(t)
    \/ Chdir70(t) \/ SubExec117(t) \/ SubCmdline116(t) \/ Delegate81(t)
    \/ Finally74(t) \/ Unlock68(t) \/ Return123(t) \/ Check77(t)

\* The calls of the runs checked for termination: one input for each way a
\* call can end.
LiveInputs ==
    [options : {OptEsbmcUpper, OptSymbiotic, OptNoSuch}, propertyfile : {"prop.prp"},
     tasks : {Tasks}]

LiveCallCmdline(t) ==
    /\ calls < MaxLiveCalls
    /\ \E inp \in LiveInputs : StartCmdline(t, inp)

LiveCallDetermineResult(t) ==
    /\ calls < MaxLiveCalls
    /\ \E run \in DetermineInputs : StartDetermineResult(t, run)

LiveNext ==
    \E t \in Threads :
        \/ LiveCallCmdline(t)
        \/ LiveCallDetermineResult(t)
        \/ Return(t)
        \/ Acquire104(t)
        \/ Acquire68(t)
        \/ Step(t)

\* Fair scheduling: a thread that can step eventually does, and a thread
\* waiting for a lock that is free again and again eventually gets it.  The
\* sub-adapter calls are steps, so they terminate.
FairSpec ==
    /\ Init
    /\ [][LiveNext]_vars
    /\ \A t \in Threads :
          /\ WF_vars(Step(t))
          /\ SF_vars(Acquire104(t) \/ Acquire68(t))

\* ------------------------------------------ calls after a mixed-tools exit
\* Calls with two supported identifiers and an unsupported one that loads;
\* each cmdline call notes whether a call has ended by the exit of line 112
\* before it started.
MixInputs ==
    [options : {OptEsbmcUpper, OptSymbiotic, OptCbmc}, propertyfile : {"prop.prp"},
     tasks : {Tasks}]

MixCallCmdline(t) ==
    /\ calls < MaxMixCalls
    /\ \E inp \in MixInputs : BeginCmdline(t, inp, MixedExitSeen)

MixCallDetermineResult(t) ==
    /\ calls < MaxMixCalls
    /\ \E run \in DetermineInputs : StartDetermineResult(t, run)

MixNext ==
    \E t \in Threads :
        \/ MixCallCmdline(t)
        \/ MixCallDetermineResult(t)
        \/ Return(t)
        \/ Acquire104(t)
        \/ Acquire68(t)
        \/ Step(t)

MixSpec == Init /\ [][MixNext]_vars

\* ---------------------------------------------- one runner thread, many inputs
\* An option list built from an identifier, the two optional values (None
\* when the flag is left out) and options that are not the adapter's.
SeqOptions(id, addPath, witnessType, extra) ==
    <<FlagWitness, "w.graphml">> \o extra
    \o (IF addPath = None THEN <<>> ELSE <<FlagAddPath, addPath>>)
    \o <<FlagMetaval, id>>
    \o (IF witnessType = None THEN <<>> ELSE <<FlagWitnessType, witnessType>>)

SeqInputs ==
    { [options |-> SeqOptions(id, ap, wt, extra), propertyfile |-> "prop.prp",
       tasks |-> tasks] :
        id \in {"Esbmc", "UltimateAutomizer", "cpachecker"},
        ap \in {None, "bin", ""},
        wt \in {None, "violation", ""},
        extra \in {<<>>, <<"--timeout">>},
        tasks \in {<<>>, <<"t.c">>, <<"b.c", "a.c">>} }

SeqRuns == {RunTimeout, RunExit}

SeqCallCmdline(t) ==
    /\ calls < MaxSeqCalls
    /\ \E inp \in SeqInputs : StartCmdline(t, inp)

SeqCallDetermineResult(t) ==
    /\ calls < MaxSeqCalls
    /\ \E run \in SeqRuns : StartDetermineResult(t, run)

\* The runner makes one call after the other from its first thread.
SeqNext ==
    \E t \in {u \in Threads : \A v \in Threads : u <= v} :
        \/ SeqCallCmdline(t)
        \/ SeqCallDetermineResult(t)
        \/ Return(t)
        \/ Acquire104(t)
        \/ Acquire68(t)
        \/ Step(t)

SeqSpec == Init /\ [][SeqNext]_vars

\* ================================================================== claims
InCall(t) == th[t].pc \notin {"idle", "done"}
Done(t) == th[t].pc = "done"
DoneCmdline(t) == Done(t) /\ th[t].op = "cmdline"
DoneDetermineResult(t) == Done(t) /\ th[t].op = "determine_result"
\* The lowercased identifier of the options of thread t's call.
Identifier(t) == Lower(ParseKnownArgs(th[t].options).metaval)

\* C1: once a cmdline call has recorded a sub-tool identifier, no later step
\* of any call changes the recorded identifier.
C1_IdentifierNeverChanges ==
    [][verifierName # NoAttr => verifierName' = verifierName]_vars

\* C2: a cmdline call that reaches the resolution step while a different
\* identifier is recorded on the instance leaves that step with the "mixed
\* wrapped tools" exit pending, and a call that ends with that exit has
\* changed no directory, called no sub-adapter and returns no vector.
C2_MismatchIsFatal ==
    /\ [][\A t \in Threads :
            (/\ th[t].pc = "resolve105"
             /\ th'[t].pc # "resolve105"
             /\ verifierName # NoAttr
             /\ verifierName # th[t].verifierName)
            => th'[t].exc = "mixed_exit"]_vars
    /\ [](\A t \in Threads :
            (Done(t) /\ th[t].outcome = "mixed_exit")
            => (th[t].chdirs = 0 /\ th[t].subcalls = 0 /\ th[t].retval = <<>>))

\* C3: the sub-adapter is constructed at most once, exactly once as soon as
\* it is set; the object used by every sub-adapter call and behind every
\* returned vector is that first object, built for the call's identifier.
C3_SubAdapterConstructedOnce ==
    /\ constructions <= 1
    /\ HasWrappedTool => (constructions = 1 /\ wrappedTool.serial = 1)
    /\ \A t \in Threads :
          /\ th[t].subcalls > 0 => (th[t].usedTool = wrappedTool /\ HasWrappedTool)
          /\ (DoneCmdline(t) /\ th[t].outcome = "argv")
             => (/\ th[t].usedTool = wrappedTool
                 /\ wrappedTool.module = Identifier(t))

\* Two cmdline calls with the same identifier have both returned a vector.
C3_Witness ==
    \E t1, t2 \in Threads :
        /\ t1 # t2
        /\ DoneCmdline(t1) /\ th[t1].outcome = "argv"
        /\ DoneCmdline(t2) /\ th[t2].outcome = "argv"
        /\ Identifier(t1) = Identifier(t2)
        /\ th[t1].options # th[t2].options
        /\ constructions = 1

\* Between lines 71 and 74: the directory change has been tried and the
\* finally clause has not run yet.
InsideDirectory(t) ==
    th[t].pc \in {"exec117", "cmdline116", "delegate81", "finally74"}

\* C4: whenever no thread is between the directory change and its finally
\* clause, the working directory is the original one, whatever way the calls
\* ended; when a call leaves the scope the directory is the one it found.
C4_WorkingDirectoryRestored ==
    /\ (\A t \in Threads : ~InsideDirectory(t)) => cwd = OrigCwd
    /\ \A t \in Threads :
          th[t].pc = "unlock68" => (cwd = th[t].oldcwd /\ cwd = OrigCwd)
    /\ \A t \in Threads : (Done(t) /\ lock = 0) => cwd = OrigCwd

\* One call has ended by a raising sub-adapter call, another by a failed
\* change into the tool directory, and the directory is the original one.
C4_Witness ==
    \E t1, t2 \in Threads :
        /\ Done(t1) /\ th[t1].outcome = "SubError" /\ th[t1].chdirs = 2
        /\ Done(t2) /\ th[t2].outcome = "OSError"
        /\ cwd = OrigCwd

\* C5 as stated: a determine_result call that ends while no cmdline call has
\* returned an argument vector returns the sentinel verdict and has neither
\* changed the directory nor called the sub-adapter.
C5_NoSuccessMeansSentinel ==
    \A t \in Threads :
        (DoneDetermineResult(t) /\ ~succeeded)
        => (/\ th[t].outcome = "verdict" /\ th[t].verdict = "METAVAL ERROR"
            /\ th[t].chdirs = 0 /\ th[t].subcalls = 0)

\* C5 amended: a determine_result call made while no sub-adapter is resolved
\* on the instance returns the sentinel verdict and has neither taken the
\* lock, changed the directory nor called the sub-adapter.
C5_UnresolvedMeansSentinel ==
    \A t \in Threads :
        (DoneDetermineResult(t) /\ ~HasWrappedTool)
        => (/\ th[t].outcome = "verdict" /\ th[t].verdict = "METAVAL ERROR"
            /\ th[t].acquires = 0 /\ th[t].chdirs = 0 /\ th[t].subcalls = 0)

\* A determine_result call has returned the sentinel after a cmdline call
\* recorded an identifier and failed to load its sub-adapter.
C5_Witness ==
    \E t \in Threads :
        /\ DoneDetermineResult(t) /\ th[t].verdict = "METAVAL ERROR"
        /\ ~HasWrappedTool /\ verifierName # NoAttr

\* The option list holds flag followed by a value for it.
Gives(options, flag) ==
    \E i \in 1..(Len(options) - 1) :
        options[i] = flag /\ options[i + 1] \notin OptionStrings

LacksRequired(options) ==
    ~Gives(options, FlagWitness) \/ ~Gives(options, FlagMetaval)

\* The identifier the option list gives, lowercased.
GivenIdentifier(options) ==
    LET at == CHOOSE i \in 1..(Len(options) - 1) :
                  options[i] = FlagMetaval /\ options[i + 1] \notin OptionStrings
    IN  Lower(options[at + 1])

\* C6: a cmdline call whose options lack --metavalWitness or --metaval ends
\* at the parsing step with the usage-error exit: it never takes the lock,
\* changes no directory, calls and constructs no sub-adapter, returns no
\* vector, and its last step leaves the adapter state as it was.
C6_UsageErrorBeforeAnyWork ==
    /\ [](\A t \in Threads :
            (th[t].op = "cmdline" /\ LacksRequired(th[t].options))
            => (/\ th[t].pc \in {"parse", "done"}
                /\ Done(t) => th[t].outcome = "usage_exit"
                /\ th[t].acquires = 0 /\ th[t].chdirs = 0
                /\ th[t].subcalls = 0 /\ th[t].usedTool = NoTool
                /\ th[t].retval = <<>>))
    /\ [][\A t \in Threads :
            (/\ th[t].op = "cmdline" /\ LacksRequired(th[t].options)
             /\ th'[t] # th[t])
            => (Shared' = Shared /\ succeeded' = succeeded)]_vars

\* Calls lacking --metaval and lacking --metavalWitness have both ended,
\* with an identifier recorded by another call still in place.
C6_Witness ==
    \E t1, t2 \in Threads :
        /\ Done(t1) /\ th[t1].options = OptNoMetaval /\ th[t1].outcome = "usage_exit"
        /\ Done(t2) /\ th[t2].options = OptNoWitness /\ th[t2].outcome = "usage_exit"
        /\ HasWrappedTool

\* Inside the with block of line 68.
InScope(t) ==
    th[t].pc \in {"chdir70", "exec117", "cmdline116", "delegate81", "finally74",
                  "unlock68"}

\* C7: a thread inside the directory scope holds the lock, so at most one
\* thread is inside; the working directory changes only by a step of the
\* lock holder at line 71 or 74; and the directory a sub-adapter call runs
\* in is the one its own scope entered.
C7_DirectoryChangesUnderLock ==
    /\ [](\A t \in Threads : InScope(t) => lock = t)
    /\ [](Cardinality({t \in Threads : InScope(t)}) <= 1)
    /\ [](\A t \in Threads :
            th[t].subcalls > 0
            => th[t].subcwd = PathJoin(th[t].oldcwd, <<TOOL_TO_PATH_MAP[verifierName]>>))
    /\ [][cwd' # cwd
          => (/\ lock # 0 /\ lock' = lock
              /\ th[lock].pc \in {"chdir70", "finally74"}
              /\ th'[lock].pc # th[lock].pc)]_vars

\* A thread is running its sub-adapter call in the tool directory while
\* another waits to enter the scope.
C7_Witness ==
    \E t1, t2 \in Threads :
        /\ th[t1].pc = "cmdline116" /\ cwd # OrigCwd
        /\ th[t2].pc = "lock68"

\* C8: under fair scheduling every call in progress ends; a thread waiting
\* for the lock does not hold it; the lock is free when no call is in
\* progress.
C8_CallsFinish ==
    /\ [](\A t \in Threads : th[t].pc \in {"lock104", "lock68"} => lock # t)
    /\ []((\A t \in Threads : ~InCall(t)) => lock = 0)
    /\ \A t \in Threads : InCall(t) ~> Done(t)

\* Calls have ended by an exception raised under each of the two with
\* blocks, and the lock is free.
C8_Witness ==
    \E t1, t2 \in Threads :
        /\ Done(t1) /\ th[t1].outcome = "SubError"
        /\ Done(t2) /\ th[t2].outcome = "mixed_exit"
        /\ lock = 0

\* C9: a cmdline call with the required options whose identifier names no
\* loadable module ends by an error (the ImportError of the load, or the
\* mixed-tools exit when another sub-adapter is resolved): it returns no
\* vector, changes no directory and calls no sub-adapter.
C9_UnloadableIsFatal ==
    \A t \in Threads :
        (/\ th[t].op = "cmdline" /\ ~LacksRequired(th[t].options)
         /\ GivenIdentifier(th[t].options) \notin LoadableModules)
        => (/\ th[t].pc \in {"parse", "lock104", "resolve105", "import107",
                              "unlock112", "done"}
            /\ Done(t) => th[t].outcome \in {"ImportError", "mixed_exit"}
            /\ th[t].retval = <<>> /\ th[t].chdirs = 0 /\ th[t].subcalls = 0)

\* The load has failed in one call, and another call with the same
\* identifier met a resolved sub-adapter.
C9_Witness ==
    \E t1, t2 \in Threads :
        /\ Done(t1) /\ th[t1].options = OptNoSuch /\ th[t1].outcome = "ImportError"
        /\ Done(t2) /\ th[t2].options = OptNoSuch /\ th[t2].outcome = "mixed_exit"

\* C10: a cmdline call without a property file, with the required options
\* and a loadable, mapped identifier, returns an argument vector unless it
\* ends the way a call with a property file can (mixed tools, the directory
\* change or the sub-adapter failing).
C10_PropertyFileOptional ==
    \A t \in Threads :
        (/\ DoneCmdline(t) /\ th[t].propertyfile = None
         /\ ~LacksRequired(th[t].options)
         /\ GivenIdentifier(th[t].options) \in LoadableModules
         /\ GivenIdentifier(th[t].options) \in DOMAIN TOOL_TO_PATH_MAP
         /\ th[t].outcome \notin {"mixed_exit", "OSError", "SubError"})
        => th[t].outcome = "argv"

\* The value the option list gives for flag.
GivenValue(options, flag) ==
    LET at == CHOOSE i \in 1..(Len(options) - 1) :
                  options[i] = flag /\ options[i + 1] \notin OptionStrings
    IN  options[at + 1]

\* The vector a cmdline call is to return, from its inputs, the sub-adapter's
\* vector and whether each optional part is present.
ExpectedArgv(t, withAddPath, withWitnessType) ==
    <<Executable, "--verifier",
      TOOL_TO_PATH_MAP[GivenIdentifier(th[t].options)],
      "--witness", GivenValue(th[t].options, FlagWitness)>>
    \o (IF withAddPath
        THEN <<"--additionalPATH", GivenValue(th[t].options, FlagAddPath)>>
        ELSE <<>>)
    \o (IF withWitnessType
        THEN <<"--witnessType", GivenValue(th[t].options, FlagWitnessType)>>
        ELSE <<>>)
    \o th[t].tasks \o <<"--">> \o th[t].wrappedOptions

\* C11 as stated: every returned vector is the fixed head, the additional
\* path part iff --metavalAdditionalPATH was given, the witness type part
\* iff --metavalWitnessType was given, the tasks, "--" and the sub-adapter's
\* vector.
C11_ArgvWhenGiven ==
    \A t \in Threads :
        (DoneCmdline(t) /\ th[t].outcome = "argv")
        => th[t].retval = ExpectedArgv(t, Gives(th[t].options, FlagAddPath),
                                          Gives(th[t].options, FlagWitnessType))

\* The option list gives a value for flag that is not the empty string.
GivesNonEmpty(options, flag) ==
    Gives(options, flag) /\ GivenValue(options, flag) # ""

\* C11 amended: as C11, with each optional part present iff its flag was
\* given with a non-empty value.
C11_ArgvWhenNonEmpty ==
    \A t \in Threads :
        (DoneCmdline(t) /\ th[t].outcome = "argv")
        => th[t].retval =
              ExpectedArgv(t, GivesNonEmpty(th[t].options, FlagAddPath),
                              GivesNonEmpty(th[t].options, FlagWitnessType))

\* A vector with both optional parts, two tasks and a sub-adapter vector
\* that carries a remainder option has been returned.
C11_Witness ==
    \E t \in Threads :
        /\ DoneCmdline(t) /\ th[t].outcome = "argv"
        /\ GivesNonEmpty(th[t].options, FlagAddPath)
        /\ GivesNonEmpty(th[t].options, FlagWitnessType)
        /\ th[t].tasks = <<"b.c", "a.c">>
        /\ Len(th[t].retval) = 15
        /\ th[t].retval[3] = "UAutomizer-linux"

\* Between the directory change of line 71 and the end of the with body.
InBody(t) == th[t].pc \in {"exec117", "cmdline116", "delegate81"}

\* C12: while a call is inside the tool directory, the working directory is
\* the original one joined with the mapping's value for the recorded
\* identifier, which for a cmdline call is its own identifier lowercased; a
\* call with a supported identifier, in any letter case, never fails to load
\* or to look up its directory.
C12_DirectoryIsMappedValue ==
    \A t \in Threads :
        /\ InBody(t)
           => (/\ verifierName \in DOMAIN TOOL_TO_PATH_MAP
               /\ cwd = PathJoin(OrigCwd, <<TOOL_TO_PATH_MAP[verifierName]>>)
               /\ th[t].op = "cmdline" => verifierName = GivenIdentifier(th[t].options))
        /\ th[t].subcalls > 0
           => th[t].subcwd = PathJoin(OrigCwd, <<TOOL_TO_PATH_MAP[verifierName]>>)
        /\ (/\ DoneCmdline(t) /\ ~LacksRequired(th[t].options)
            /\ GivenIdentifier(th[t].options) \in DOMAIN TOOL_TO_PATH_MAP)
           => th[t].outcome \notin {"KeyError", "ImportError"}

\* determine_result runs the sub-adapter in UAutomizer-linux, the directory
\* of the identifier an earlier cmdline call gave in mixed case.
C12_Witness ==
    \E t \in Threads :
        /\ th[t].pc = "delegate81"
        /\ verifierName = "ultimateautomizer"
        /\ cwd = <<"bench", "UAutomizer-linux">>

\* What C13 asks of a determine_result call that has ended.
Delegated(t) ==
    /\ th[t].subcalls = 1
    /\ th[t].subRun = th[t].run
    /\ th[t].subcwd # OrigCwd
    /\ th[t].outcome \in {"verdict", "SubError"}
    /\ th[t].outcome = "verdict" => th[t].verdict = th[t].subVerdict

\* C13: a determine_result call that found the sub-adapter resolved (it went
\* on to take the lock) and whose tool directory exists calls the
\* sub-adapter exactly once, in the tool directory and with its own
\* arguments, and returns the verdict the sub-adapter returned (or fails as
\* the sub-adapter failed).
C13_DelegatesOnceResolved ==
    \A t \in Threads :
        (DoneDetermineResult(t) /\ th[t].acquires > 0 /\ th[t].outcome # "OSError")
        => Delegated(t)

\* C13 for the identifiers of the mapping: the same, when the resolved
\* sub-adapter is one of a supported identifier.
C13_DelegatesWhenSupported ==
    \A t \in Threads :
        (/\ DoneDetermineResult(t) /\ th[t].acquires > 0
         /\ th[t].outcome # "OSError"
         /\ verifierName \in DOMAIN TOOL_TO_PATH_MAP)
        => (Delegated(t)
            /\ th[t].subcwd = PathJoin(OrigCwd, <<TOOL_TO_PATH_MAP[verifierName]>>))

\* The order of the steps of a cmdline call: parsing, the first lock block
\* (resolution and mismatch check), its release, the directory scope
\* (lock, directory change, executable(), cmdline(), restoration, release)
\* and last the assembly of the vector; a failing step ends the call or goes
\* to the restoration.
CmdlineOrder ==
    { <<"idle", "parse">>, <<"done", "parse">>,
      <<"parse", "lock104">>, <<"parse", "done">>,
      <<"lock104", "resolve105">>,
      <<"resolve105", "import107">>, <<"resolve105", "unlock112">>,
      <<"import107", "unlock112">>,
      <<"unlock112", "check114">>, <<"unlock112", "done">>,
      <<"check114", "lock68">>, <<"check114", "done">>,
      <<"lock68", "chdir70">>,
      <<"chdir70", "exec117">>, <<"chdir70", "finally74">>,
      <<"exec117", "cmdline116">>, <<"exec117", "finally74">>,
      <<"cmdline116", "finally74">>,
      <<"finally74", "unlock68">>,
      <<"unlock68", "return123">>, <<"unlock68", "done">>,
      <<"return123", "done">> }

\* The options the parser of lines 86-91 does not consume: every token that
\* is neither one of its flags nor the argument of one.
Unconsumed(options) ==
    LET idx == SelectSeq([i \in 1..Len(options) |-> i],
                   LAMBDA i : /\ options[i] \notin KnownFlags
                              /\ (i = 1 \/ options[i - 1] \notin KnownFlags))
    IN  [k \in 1..Len(idx) |-> options[idx[k]]]

\* Where the lock and the working directory are at each step of a cmdline
\* call of thread t.
CmdlinePosition(t) ==
    /\ th[t].pc \in {"resolve105", "import107", "unlock112"} => lock = t
    /\ th[t].pc \in {"parse", "lock104", "check114", "lock68", "return123"}
       => lock # t
    /\ th[t].pc \in {"chdir70", "exec117", "cmdline116", "finally74", "unlock68"}
       => lock = t
    /\ th[t].pc \in {"exec117", "cmdline116"}
       => (/\ verifierName \in DOMAIN TOOL_TO_PATH_MAP
           /\ cwd = PathJoin(OrigCwd, <<TOOL_TO_PATH_MAP[verifierName]>>))
    /\ th[t].pc \in {"unlock68", "return123"} /\ lock \in {0, t}
       => cwd = OrigCwd
    /\ th[t].pc # "done" => th[t].retval = <<>>

\* C14: a cmdline call takes its steps in the order parsing, resolution and
\* mismatch check under the lock, release, re-acquisition with the directory
\* change, executable() and cmdline() of the sub-adapter under the lock and
\* inside the sub-tool's directory, restoration and release, and only then
\* the assembly of the vector; the sub-adapter is given its own executable,
\* the unconsumed options and the single task output/ARG.c of the original
\* directory.
C14_StepOrder ==
    [][\A t \in Threads :
          th'[t].op = "cmdline" =>
            /\ th'[t].pc # th[t].pc => <<th[t].pc, th'[t].pc>> \in CmdlineOrder
            /\ CmdlinePosition(t)'
            /\ (th'[t].subcalls # th[t].subcalls /\ th[t].pc = "exec117")
               => (/\ lock = t /\ cwd # OrigCwd
                   /\ th'[t].subcalls = 1
                   /\ th'[t].subExecutable \in {"", SubExecutable(wrappedTool)})
            /\ (th'[t].subcalls # th[t].subcalls /\ th[t].pc # "exec117")
               => (/\ th[t].pc = "cmdline116" /\ lock = t /\ cwd # OrigCwd
                   /\ th'[t].subcalls = 2
                   /\ th[t].subExecutable = SubExecutable(wrappedTool)
                   /\ th'[t].subArgs.executable = th[t].subExecutable
                   /\ th'[t].subArgs.options = Unconsumed(th[t].options)
                   /\ th'[t].subArgs.tasks
                        = <<RelPath(<<"bench", "output", "ARG.c">>, cwd)>>
                   /\ Len(th'[t].subArgs.tasks) = 1)
            /\ th'[t].retval # th[t].retval
               => (th[t].pc = "return123" /\ th[t].subcalls = 2)]_vars

\* A cmdline call has returned its vector after all the steps, given
\* options that leave a remainder.
C14_Witness ==
    \E t \in Threads :
        /\ DoneCmdline(t) /\ th[t].outcome = "argv"
        /\ th[t].acquires = 2 /\ th[t].chdirs = 2 /\ th[t].subcalls = 2
        /\ th[t].subArgs.options = <<"--timeout">>

\* Thread t's cmdline call has returned an argument vector.
ReturnedArgv(t) == DoneCmdline(t) /\ th[t].outcome = "argv"

\* Position of "--" in a returned vector: the sub-adapter part follows it.
SubPart(argv) ==
    LET at == CHOOSE i \in 1..Len(argv) :
                  argv[i] = "--" /\ \A j \in 1..(i - 1) : argv[j] # "--"
    IN  SubSeq(argv, at + 1, Len(argv))

\* C15: every argument vector returned by cmdline names the one resolved
\* sub-tool: one sub-adapter was constructed, its identifier is the recorded
\* one, the "--verifier" value of the vector is the mapped directory of that
\* identifier and the part after "--" is what that sub-adapter's cmdline
\* built; so any two returned vectors name the same sub-tool.
C15_OneSubTool ==
    /\ \A t \in Threads :
          ReturnedArgv(t) =>
            /\ constructions = 1 /\ wrappedTool.serial = 1
            /\ wrappedTool.module = verifierName
            /\ verifierName \in DOMAIN TOOL_TO_PATH_MAP
            /\ th[t].retval[2] = "--verifier"
            /\ th[t].retval[3] = TOOL_TO_PATH_MAP[verifierName]
            /\ th[t].usedTool = wrappedTool
            /\ SubPart(th[t].retval)
                 = SubCmdline(wrappedTool, SubExecutable(wrappedTool),
                       th[t].subArgs.options, th[t].subArgs.tasks,
                       th[t].subArgs.propertyfile, th[t].subArgs.rlimits)
    /\ \A t1, t2 \in Threads :
          (ReturnedArgv(t1) /\ ReturnedArgv(t2))
          => (/\ th[t1].retval[3] = th[t2].retval[3]
              /\ th[t1].usedTool = th[t2].usedTool
              /\ SubPart(th[t1].retval)[1] = SubPart(th[t2].retval)[1])

\* Two threads have each returned a vector, from calls with different
\* option lists, and a third call has been made on the instance.
C15_Witness ==
    \E t1, t2 \in Threads :
        /\ t1 # t2 /\ ReturnedArgv(t1) /\ ReturnedArgv(t2)
        /\ th[t1].options # th[t2].options
        /\ calls = 3

\* The sub-adapter is set only with the identifier it was constructed from.
IdentifierOfSubAdapter ==
    HasWrappedTool => (verifierName # NoAttr /\ verifierName = wrappedTool.module)

\* Thread t's determine_result call has passed the test of line 77.
PastCheck77(t) ==
    /\ th[t].op = "determine_result"
    /\ th[t].pc \in {"lock68", "chdir70", "delegate81", "finally74", "unlock68"}

\* C16: in every state a set sub-adapter comes with the recorded identifier
\* it was constructed from, and from then on no step changes either; so a
\* determine_result call that has passed its unlocked check of line 77 finds
\* the identifier set and final, whatever a concurrent cmdline call is doing.
C16_SubAdapterImpliesIdentifier ==
    [][/\ IdentifierOfSubAdapter /\ IdentifierOfSubAdapter'
       /\ HasWrappedTool
          => (verifierName' = verifierName /\ wrappedTool' = wrappedTool)
       /\ \A t \in Threads :
             PastCheck77(t)' => (HasWrappedTool /\ IdentifierOfSubAdapter)']_vars

\* A determine_result call is inside the directory scope while a cmdline
\* call of the other thread waits for the lock of line 104.
C16_Witness ==
    \E t1, t2 \in Threads :
        /\ th[t1].op = "determine_result" /\ th[t1].pc = "chdir70"
        /\ th[t2].op = "cmdline" /\ th[t2].pc = "lock104"
        /\ verifierName = wrappedTool.module

\* C17: whenever a sub-adapter is resolved the recorded identifier is a key
\* of TOOL_TO_PATH_MAP, and no call ends by the failing lookup of line 71
\* or 126.
C17_RecordedIsMapped ==
    /\ HasWrappedTool => verifierName \in DOMAIN TOOL_TO_PATH_MAP
    /\ \A t \in Threads : Done(t) => th[t].outcome # "KeyError"

\* Thread t's cmdline call has ended by the mixed-tools exit of line 112.
EndedMixed(t) == DoneCmdline(t) /\ th[t].outcome = "mixed_exit"

\* Thread t's cmdline call started after a call had ended by the mixed-tools
\* exit, gives the recorded identifier, and has ended.
LaterCallWithRecorded(t) ==
    /\ DoneCmdline(t) /\ th[t].afterMixed
    /\ ~LacksRequired(th[t].options)
    /\ GivenIdentifier(th[t].options) = verifierName

\* C18: the steps by which a cmdline call raises the mixed-tools error and
\* ends by it change neither the recorded identifier nor the sub-adapter nor
\* the working directory; the ended call has changed no directory, called
\* no sub-adapter and does not hold the lock; and a later call that gives
\* the recorded identifier passes the resolution, uses the sub-adapter that
\* was resolved before, and returns its vector unless the sub-tool's
\* directory or the sub-adapter fails.
C18_MixedErrorChangesNothing ==
    [][\A t \in Threads :
          /\ (th'[t] # th[t] /\ "mixed_exit" \in {th'[t].exc, th'[t].outcome})
             => (/\ verifierName' = verifierName /\ wrappedTool' = wrappedTool
                 /\ cwd' = cwd /\ constructions' = constructions)
          /\ EndedMixed(t)'
             => (/\ lock' # t
                 /\ th'[t].chdirs = 0 /\ th'[t].subcalls = 0
                 /\ th'[t].retval = <<>>
                 /\ HasWrappedTool' /\ wrappedTool'.serial = 1)
          /\ LaterCallWithRecorded(t)'
             => (/\ th'[t].outcome \notin {"mixed_exit", "ImportError",
                                           "notfound_exit", "usage_exit"}
                 /\ th'[t].outcome = "argv"
                    => (th'[t].usedTool = wrappedTool'
                        /\ wrappedTool'.serial = 1 /\ constructions' = 1)
                 /\ (verifierName' \in DOMAIN TOOL_TO_PATH_MAP
                     /\ th'[t].propertyfile # None)
                    => th'[t].outcome \in {"argv", "OSError", "SubError"})]_vars

\* One call has ended by the mixed-tools exit and a call started after it,
\* with the recorded identifier, has returned its vector from the
\* sub-adapter resolved first.
C18_Witness ==
    \E t1, t2 \in Threads :
        /\ EndedMixed(t1)
        /\ LaterCallWithRecorded(t2) /\ th[t2].outcome = "argv"
        /\ th[t2].usedTool.serial = 1
        /\ cwd = OrigCwd /\ lock = 0

====
